---- MODULE Spec2Model ----
(***************************************************************************)
(* Model of the content-directory site's data layer: the query pipeline    *)
(* (lib/search-filter-sort), the homepage statistics (lib/homepage-stats), *)
(* the schema validator (lib/validation), the dataset loader with its      *)
(* module-level cache (lib/dataset), the category routes and the links to  *)
(* them (lib/dataset, app/category, app/page, components/Navigation), the  *)
(* values the pages compute from the dataset (app/page, app/browse,        *)
(* app/category), the dark mode provider (components/DarkModeProvider) and *)
(* the debounced search box (components/SearchBar).                        *)
(*                                                                         *)
(* Strings are sequences of one-character strings over Chars; a JavaScript *)
(* value of unknown type is a record tagged with its kind (Js below).      *)
(***************************************************************************)
EXTENDS Integers, Sequences, FiniteSets, TLC

VARIABLES items, op, arg, result,
          candidate, verdict,
          datasetJson, cachedDataset, outcome, loads, calls, firstReturn,
          categories,
          isDarkMode, mounted, darkClass, stored, history,
          valueProp, searchQuery, localValue, timers, lastTimer, typed, searchEvent, lastCall

vars == <<items, op, arg, result, candidate, verdict,
          datasetJson, cachedDataset, outcome, loads, calls, firstReturn,
          categories,
          isDarkMode, mounted, darkClass, stored, history,
          valueProp, searchQuery, localValue, timers, lastTimer, typed, searchEvent, lastCall>>

validatorVars == <<candidate, verdict>>
loaderVars == <<datasetJson, cachedDataset, outcome, loads, calls, firstReturn>>
routingVars == <<categories>>
darkVars == <<isDarkMode, mounted, darkClass, stored, history>>
searchVars == <<valueProp, searchQuery, localValue, timers, lastTimer, typed, searchEvent, lastCall>>

----------------------------------------------------------------------------
(* Bounds *)

MaxItems == 2
MaxStrLen == 2
MaxTags == 2
MaxCalls == 3

----------------------------------------------------------------------------
(* Strings *)

Chars == {"a", "A", "b", " "}

RECURSIVE StringsOfLen(_)
StringsOfLen(n) ==
  IF n = 0 THEN {<<>>}
  ELSE {Append(s, c) : s \in StringsOfLen(n - 1), c \in Chars}

Strings == UNION {StringsOfLen(n) : n \in 0..MaxStrLen}

RECURSIVE SeqsOfLen(_, _)
SeqsOfLen(S, n) ==
  IF n = 0 THEN {<<>>}
  ELSE {Append(s, x) : s \in SeqsOfLen(S, n - 1), x \in S}

SeqsUpTo(S, n) == UNION {SeqsOfLen(S, k) : k \in 0..n}

(* String.prototype.toLowerCase, one character *)
LowerChar(c) == CASE c = "A" -> "a" [] c = "B" -> "b" [] OTHER -> c

toLowerCase(s) == [i \in 1..Len(s) |-> LowerChar(s[i])]

IsSpace(c) == c = " "

(* String.prototype.trim: drops leading and trailing white space only *)
RECURSIVE trimStart(_)
trimStart(s) ==
  IF s # <<>> /\ IsSpace(Head(s)) THEN trimStart(Tail(s)) ELSE s

RECURSIVE trimEnd(_)
trimEnd(s) ==
  IF s # <<>> /\ IsSpace(s[Len(s)]) THEN trimEnd(SubSeq(s, 1, Len(s) - 1)) ELSE s

trim(s) == trimEnd(trimStart(s))

(* String.prototype.includes: sub occurs in s as a contiguous substring *)
includes(s, sub) ==
  \E i \in 0..(Len(s) - Len(sub)) : SubSeq(s, i + 1, i + Len(sub)) = sub

(* Array.prototype.includes on an array of strings: strict equality *)
arrayIncludes(a, x) == \E i \in 1..Len(a) : a[i] = x

(* Array.prototype.filter: a new array, input order kept *)
(* (keep[i] is the callback's verdict on element i)                        *)
RECURSIVE filterFrom(_, _, _)
filterFrom(s, keep, i) ==
  IF i > Len(s) THEN <<>>
  ELSE IF keep[i] THEN <<s[i]>> \o filterFrom(s, keep, i + 1)
       ELSE filterFrom(s, keep, i + 1)

filter(s, keep) == filterFrom(s, keep, 1)

(* String.prototype.localeCompare under the default collation: letters are *)
(* compared ignoring case first (white space sorts before letters), and    *)
(* only when that ties does case decide, lower case first.                 *)
PrimaryWeight(c) == CASE c = " " -> 0 [] LowerChar(c) = "a" -> 1 [] OTHER -> 2

CaseWeight(c) == IF c \in {"A", "B"} THEN 1 ELSE 0

RECURSIVE CompareWeights(_, _, _)
CompareWeights(x, y, level) ==
  IF x = <<>> /\ y = <<>> THEN 0
  ELSE IF x = <<>> THEN -1
  ELSE IF y = <<>> THEN 1
  ELSE LET wx == IF level = 1 THEN PrimaryWeight(Head(x)) ELSE CaseWeight(Head(x))
           wy == IF level = 1 THEN PrimaryWeight(Head(y)) ELSE CaseWeight(Head(y))
       IN  IF wx < wy THEN -1
           ELSE IF wx > wy THEN 1
           ELSE CompareWeights(Tail(x), Tail(y), level)

localeCompare(x, y) ==
  LET p == CompareWeights(x, y, 1)
  IN  IF p # 0 THEN p ELSE CompareWeights(x, y, 3)

----------------------------------------------------------------------------
(* Items (lib/types BaseItem): the fields the data layer reads *)

(* name and description of an entry *)
Texts == {[name |-> <<"A", "b">>, description |-> <<"b">>],
          [name |-> <<"b">>, description |-> <<"b", "A">>]}
(* category and rating of an entry *)
Filings == {[category |-> <<"A", "b">>, rating |-> 2],
            [category |-> <<"a", "b", " ">>, rating |-> 5],
            [category |-> <<"b">>, rating |-> 5]}
TagLists == {<<>>, <<<<"a">>, <<"A", "A">>>>}

ItemContents ==
  {[name |-> t.name, description |-> t.description, category |-> f.category,
    tags |-> g, rating |-> f.rating] :
     t \in Texts, f \in Filings, g \in TagLists}

(* ids are unique across a dataset: the position in the fixture *)
MkItems(cs) ==
  [i \in 1..Len(cs) |->
     [id |-> i, name |-> cs[i].name, description |-> cs[i].description,
      category |-> cs[i].category, tags |-> cs[i].tags, rating |-> cs[i].rating]]

ItemLists == {MkItems(cs) : cs \in SeqsUpTo(ItemContents, MaxItems)}

TagPool == {<<"a">>, <<"A">>, <<"A", "A">>}
TagArgs == SeqsUpTo(TagPool, MaxTags)
MinRatings == {-1, 0, 2, 3, 5, 6}
SortModes == {"name-asc", "name-desc", "rating-asc", "rating-desc", "other"}

----------------------------------------------------------------------------
(* lib/search-filter-sort.  Every function returns                         *)
(*   out   - the elements of the returned array                            *)
(*   alias - TRUE when the returned array is the input array object itself *)
(*   input - the elements of the input array after the call                *)

Ret(out, alias, input) == [out |-> out, alias |-> alias, input |-> input]

(* searchItems with the tags compared without lower-casing them *)
searchItems_TagsCaseSensitive(its, query) ==
  IF query = <<>> \/ trim(query) = <<>> THEN Ret(its, TRUE, its)
  ELSE LET normalizedQuery == trim(toLowerCase(query))
           keep == [i \in 1..Len(its) |->
                      LET item == its[i]
                      IN  \/ includes(toLowerCase(item.name), normalizedQuery)
                          \/ includes(toLowerCase(item.description), normalizedQuery)
                          \/ \E t \in 1..Len(item.tags) :
                                includes(item.tags[t], normalizedQuery)]
       IN  Ret(filter(its, keep), FALSE, its)

searchItems(its, query) ==
  IF query = <<>> \/ trim(query) = <<>> THEN Ret(its, TRUE, its)
  ELSE LET normalizedQuery == trim(toLowerCase(query))
           keep == [i \in 1..Len(its) |->
                      LET item == its[i]
                          nameMatch == includes(toLowerCase(item.name), normalizedQuery)
                          descriptionMatch ==
                            includes(toLowerCase(item.description), normalizedQuery)
                          tagMatch == \E t \in 1..Len(item.tags) :
                            includes(toLowerCase(item.tags[t]), normalizedQuery)
                      IN  nameMatch \/ descriptionMatch \/ tagMatch]
       IN  Ret(filter(its, keep), FALSE, its)

(* filterByCategory with the item's category left untrimmed *)
filterByCategory_NoTrim(its, category) ==
  IF category = <<>> \/ trim(category) = <<>> THEN Ret(its, TRUE, its)
  ELSE LET normalizedCategory == trim(toLowerCase(category))
           keep == [i \in 1..Len(its) |->
                      toLowerCase(its[i].category) = normalizedCategory]
       IN  Ret(filter(its, keep), FALSE, its)

filterByCategory(its, category) ==
  IF category = <<>> \/ trim(category) = <<>> THEN Ret(its, TRUE, its)
  ELSE LET normalizedCategory == trim(toLowerCase(category))
           keep == [i \in 1..Len(its) |->
                      trim(toLowerCase(its[i].category)) = normalizedCategory]
       IN  Ret(filter(its, keep), FALSE, its)

(* filterByTags showing every item when no item has a requested tag *)
filterByTags_AllWhenNone(its, tags) ==
  IF Len(tags) = 0 THEN Ret(its, TRUE, its)
  ELSE LET keep == [i \in 1..Len(its) |->
                      \E t \in 1..Len(tags) : arrayIncludes(its[i].tags, tags[t])]
           kept == filter(its, keep)
       IN  IF kept = <<>> THEN Ret(its, TRUE, its) ELSE Ret(kept, FALSE, its)

(* filterByTags matching a requested tag as a substring of an item's tag *)
filterByTags_Substring(its, tags) ==
  IF Len(tags) = 0 THEN Ret(its, TRUE, its)
  ELSE LET keep == [i \in 1..Len(its) |->
                      \E t \in 1..Len(tags) : \E u \in 1..Len(its[i].tags) :
                         includes(its[i].tags[u], tags[t])]
       IN  Ret(filter(its, keep), FALSE, its)

filterByTags(its, tags) ==
  IF Len(tags) = 0 THEN Ret(its, TRUE, its)
  ELSE LET keep == [i \in 1..Len(its) |->
                      \E t \in 1..Len(tags) : arrayIncludes(its[i].tags, tags[t])]
       IN  Ret(filter(its, keep), FALSE, its)

(* filterByMinRating dropping the items rated exactly minRating *)
filterByMinRating_Strict(its, minRating) ==
  IF minRating <= 0 THEN Ret(its, TRUE, its)
  ELSE LET keep == [i \in 1..Len(its) |-> its[i].rating > minRating]
       IN  Ret(filter(its, keep), FALSE, its)

filterByMinRating(its, minRating) ==
  IF minRating <= 0 THEN Ret(its, TRUE, its)
  ELSE LET keep == [i \in 1..Len(its) |-> its[i].rating >= minRating]
       IN  Ret(filter(its, keep), FALSE, its)

(* the comparator sortItems passes to Array.prototype.sort *)
Comparator(sortBy, a, b) ==
  CASE sortBy = "name-asc" -> localeCompare(a.name, b.name)
    [] sortBy = "name-desc" -> localeCompare(b.name, a.name)
    [] sortBy = "rating-asc" -> a.rating - b.rating
    [] sortBy = "rating-desc" -> b.rating - a.rating

(* an insertion that puts x before the elements it compares equal to *)
RECURSIVE InsertSorted_BeforeEqual(_, _, _)
InsertSorted_BeforeEqual(sorted, x, sortBy) ==
  IF sorted = <<>> THEN <<x>>
  ELSE IF Comparator(sortBy, sorted[Len(sorted)], x) < 0 THEN Append(sorted, x)
  ELSE Append(InsertSorted_BeforeEqual(SubSeq(sorted, 1, Len(sorted) - 1), x, sortBy),
              sorted[Len(sorted)])

(* an insertion that discards x when an element already placed compares   *)
(* equal to it                                                             *)
RECURSIVE InsertSorted_DropEqual(_, _, _)
InsertSorted_DropEqual(sorted, x, sortBy) ==
  IF sorted = <<>> THEN <<x>>
  ELSE IF Comparator(sortBy, sorted[Len(sorted)], x) = 0 THEN sorted
  ELSE IF Comparator(sortBy, sorted[Len(sorted)], x) < 0 THEN Append(sorted, x)
  ELSE Append(InsertSorted_DropEqual(SubSeq(sorted, 1, Len(sorted) - 1), x, sortBy),
              sorted[Len(sorted)])

(* Array.prototype.sort is stable: x goes after every element that does    *)
(* not compare greater than it.                                            *)
RECURSIVE InsertSorted(_, _, _)
InsertSorted(sorted, x, sortBy) ==
  IF sorted = <<>> THEN <<x>>
  ELSE IF Comparator(sortBy, sorted[Len(sorted)], x) <= 0 THEN Append(sorted, x)
  ELSE Append(InsertSorted(SubSeq(sorted, 1, Len(sorted) - 1), x, sortBy),
              sorted[Len(sorted)])

RECURSIVE ArraySort(_, _, _)
ArraySort(done, todo, sortBy) ==
  IF todo = <<>> THEN done
  ELSE ArraySort(InsertSorted(done, Head(todo), sortBy), Tail(todo), sortBy)

(* sortItems sorting the array it was given, without the copy *)
sortItems_InPlace(its, sortBy) ==
  IF sortBy \in {"name-asc", "name-desc", "rating-asc", "rating-desc"}
  THEN LET sorted == ArraySort(<<>>, its, sortBy) IN Ret(sorted, TRUE, sorted)
  ELSE Ret(its, TRUE, its)

(* sortItems with the descending rating comparator written ascending *)
sortItems_RatingDescAsc(its, sortBy) ==
  IF sortBy \in {"name-asc", "name-desc", "rating-asc", "rating-desc"}
  THEN Ret(ArraySort(<<>>, its, IF sortBy = "rating-desc" THEN "rating-asc" ELSE sortBy),
           FALSE, its)
  ELSE Ret(its, FALSE, its)

sortItems(its, sortBy) ==
  LET sortedItems == its
  IN  IF sortBy \in {"name-asc", "name-desc", "rating-asc", "rating-desc"}
      THEN Ret(ArraySort(<<>>, sortedItems, sortBy), FALSE, its)
      ELSE Ret(sortedItems, FALSE, its)

----------------------------------------------------------------------------
(* lib/homepage-stats *)

RECURSIVE Gcd(_, _)
Gcd(a, b) == IF b = 0 THEN a ELSE Gcd(b, a % b)

(* a JavaScript number that results from a division: a fraction in lowest  *)
(* terms, NaN, or Infinity                                                 *)
Finite(num, den) == [kind |-> "finite", num |-> num, den |-> den]
NaN == [kind |-> "nan", num |-> 0, den |-> 1]
Infinity == [kind |-> "infinity", num |-> 0, den |-> 1]

(* a / b for integers a >= 0, b >= 0 *)
Divide(a, b) ==
  IF b = 0 THEN (IF a = 0 THEN NaN ELSE Infinity)
  ELSE LET g == Gcd(a, b) IN Finite(a \div g, b \div g)

(* items.reduce((sum, item) => sum + item.rating, 0) *)
RECURSIVE reduceRatings(_, _, _)
reduceRatings(its, i, sum) ==
  IF i > Len(its) THEN sum ELSE reduceRatings(its, i + 1, sum + its[i].rating)

(* calculateHomepageStatistics dividing the sum by the number of categories *)
calculateHomepageStatistics_PerCategory(dataset) ==
  [totalItems |-> Len(dataset.items),
   totalCategories |-> Len(dataset.categories),
   totalTags |-> Len(dataset.tags),
   averageRating |-> IF Len(dataset.items) > 0
                     THEN Divide(reduceRatings(dataset.items, 1, 0),
                                 Len(dataset.categories))
                     ELSE Finite(0, 1)]

(* calculateHomepageStatistics without the guard on an empty item list *)
calculateHomepageStatistics_NoGuard(dataset) ==
  [totalItems |-> Len(dataset.items),
   totalCategories |-> Len(dataset.categories),
   totalTags |-> Len(dataset.tags),
   averageRating |-> Divide(reduceRatings(dataset.items, 1, 0), Len(dataset.items))]

calculateHomepageStatistics(dataset) ==
  LET totalItems == Len(dataset.items)
      totalCategories == Len(dataset.categories)
      totalTags == Len(dataset.tags)
      averageRating == IF totalItems > 0
                       THEN Divide(reduceRatings(dataset.items, 1, 0), totalItems)
                       ELSE Finite(0, 1)
  IN  [totalItems |-> totalItems, totalCategories |-> totalCategories,
       totalTags |-> totalTags, averageRating |-> averageRating]

(* the category and tag lists of a dataset: duplicate-free *)
AllCategories == <<<<"A", "b">>, <<"a", "b", " ">>, <<"b">>>>
AllTags == <<<<"a">>, <<"A">>, <<"A", "A">>>>
DatasetCategoryLists == {SubSeq(AllCategories, 1, n) : n \in 0..Len(AllCategories)}
DatasetTagLists == {SubSeq(AllTags, 1, n) : n \in 0..Len(AllTags)}

----------------------------------------------------------------------------
(* JavaScript values of unknown type, as the validator and the loader see  *)
(* them.  kind "nan" is the number NaN; props maps the names of the        *)
(* properties an object has to their values.                               *)

Js(kind, num, str, elems, props) ==
  [kind |-> kind, num |-> num, str |-> str, elems |-> elems, props |-> props]

JsUndefined == Js("undefined", 0, <<>>, <<>>, <<>>)
JsNull == Js("null", 0, <<>>, <<>>, <<>>)
JsNumber(n) == Js("number", n, <<>>, <<>>, <<>>)
JsNaN == Js("nan", 0, <<>>, <<>>, <<>>)
JsString(s) == Js("string", 0, s, <<>>, <<>>)
JsArray(elems) == Js("array", 0, <<>>, elems, <<>>)
JsObject(props) == Js("object", 0, <<>>, <<>>, props)

(* typeof v *)
typeof(v) ==
  CASE v.kind = "undefined" -> "undefined"
    [] v.kind \in {"number", "nan"} -> "number"
    [] v.kind = "string" -> "string"
    [] v.kind \in {"null", "array", "object"} -> "object"

(* !!v *)
truthy(v) ==
  CASE v.kind \in {"undefined", "null", "nan"} -> FALSE
    [] v.kind = "number" -> v.num # 0
    [] v.kind = "string" -> v.str # <<>>
    [] v.kind \in {"array", "object"} -> TRUE

isArray(v) == v.kind = "array"

(* field in v, for v of type object *)
hasProperty(v, field) == v.kind = "object" /\ field \in DOMAIN v.props

(* v[field], for v of type object and not null *)
getProperty(v, field) == IF hasProperty(v, field) THEN v.props[field] ELSE JsUndefined

(* a < b and a > b on numbers: every comparison with NaN is false *)
lessThan(a, b) == a.kind = "number" /\ b.kind = "number" /\ a.num < b.num
greaterThan(a, b) == a.kind = "number" /\ b.kind = "number" /\ a.num > b.num

----------------------------------------------------------------------------
(* lib/validation *)

requiredFields ==
  <<[field |-> "name", expectedType |-> "string"],
    [field |-> "category", expectedType |-> "string"],
    [field |-> "tags", expectedType |-> "array"],
    [field |-> "rating", expectedType |-> "number"],
    [field |-> "description", expectedType |-> "string"]>>

(* one iteration of the loop over requiredFields: FALSE where it returns false *)
fieldPasses(item, field, expectedType) ==
  IF ~hasProperty(item, field) THEN FALSE
  ELSE LET value == getProperty(item, field)
       IN  IF expectedType = "array"
           THEN IF ~isArray(value) THEN FALSE
                ELSE IF field = "tags" /\
                        ~(\A t \in 1..Len(value.elems) : typeof(value.elems[t]) = "string")
                     THEN FALSE
                     ELSE TRUE
           ELSE typeof(value) = expectedType

isValidItem(item) ==
  IF ~truthy(item) \/ typeof(item) # "object" THEN FALSE
  ELSE IF \E k \in 1..Len(requiredFields) :
            ~fieldPasses(item, requiredFields[k].field, requiredFields[k].expectedType)
       THEN FALSE
  ELSE IF lessThan(getProperty(item, "rating"), JsNumber(0))
          \/ greaterThan(getProperty(item, "rating"), JsNumber(5))
       THEN FALSE
  ELSE TRUE

(* isValidDataset without the loop over the items *)
isValidDataset_ShapeOnly(dataset) ==
  IF ~truthy(dataset) \/ typeof(dataset) # "object" THEN FALSE
  ELSE IF ~hasProperty(dataset, "items") \/ ~isArray(getProperty(dataset, "items"))
       THEN FALSE
  ELSE IF ~hasProperty(dataset, "type") \/ typeof(getProperty(dataset, "type")) # "string"
       THEN FALSE
  ELSE IF ~hasProperty(dataset, "categories") \/ ~isArray(getProperty(dataset, "categories"))
       THEN FALSE
  ELSE IF ~hasProperty(dataset, "tags") \/ ~isArray(getProperty(dataset, "tags"))
       THEN FALSE
  ELSE TRUE

isValidDataset(dataset) ==
  IF ~truthy(dataset) \/ typeof(dataset) # "object" THEN FALSE
  ELSE IF ~hasProperty(dataset, "items") \/ ~isArray(getProperty(dataset, "items"))
       THEN FALSE
  ELSE IF ~hasProperty(dataset, "type") \/ typeof(getProperty(dataset, "type")) # "string"
       THEN FALSE
  ELSE IF ~hasProperty(dataset, "categories") \/ ~isArray(getProperty(dataset, "categories"))
       THEN FALSE
  ELSE IF ~hasProperty(dataset, "tags") \/ ~isArray(getProperty(dataset, "tags"))
       THEN FALSE
  ELSE LET its == getProperty(dataset, "items").elems
           invalidItems == {index \in 1..Len(its) : ~isValidItem(its[index])}
       IN  IF Cardinality(invalidItems) > 0 THEN FALSE ELSE TRUE

(* Candidates: objects with any subset of the properties, each property    *)
(* holding a value of the expected type or of another one.                 *)

Absent == Js("absent", 0, <<>>, <<>>, <<>>)

(* the object with the properties of the record r that are not Absent *)
MkObject(names, r) ==
  JsObject([f \in {g \in names : r[g] # Absent} |-> r[f]])

StringFieldValues == {Absent, JsString(<<"a">>), JsNumber(3)}
TagsFieldValues ==
  {Absent, JsNull, JsString(<<"a">>), JsArray(<<>>), JsArray(<<JsString(<<"a">>)>>),
   JsArray(<<JsString(<<"a">>), JsNumber(3)>>)}
RatingFieldValues ==
  {Absent, JsString(<<"a">>), JsNaN,
   JsNumber(-1), JsNumber(0), JsNumber(3), JsNumber(5), JsNumber(6)}
OtherFieldValues == {Absent, JsString(<<"a">>), JsNumber(3)}

ItemFieldNames == {"name", "category", "tags", "rating", "description", "id"}

NonObjects == {JsUndefined, JsNull, JsNumber(0), JsNumber(3), JsString(<<>>),
               JsString(<<"a">>), JsArray(<<>>)}

ItemCandidates ==
  NonObjects \cup
  {MkObject(ItemFieldNames, r) :
     r \in [name : StringFieldValues, category : StringFieldValues,
            tags : TagsFieldValues, rating : RatingFieldValues,
            description : StringFieldValues, id : OtherFieldValues]}

MkItemObject(name, tags, rating) ==
  MkObject(ItemFieldNames,
           [name |-> name, category |-> JsString(<<"a">>), tags |-> tags,
            rating |-> rating, description |-> JsString(<<"a">>),
            id |-> JsString(<<"a">>)])

(* the elements a fixture's items array is built from *)
FixtureItems ==
  {MkItemObject(JsString(<<"a">>), JsArray(<<JsString(<<"a">>)>>), JsNumber(3)),
   MkItemObject(Absent, JsArray(<<>>), JsNumber(5)),
   MkItemObject(JsString(<<"a">>), JsArray(<<>>), JsNumber(6)),
   JsNull}

DatasetFieldNames == {"type", "items", "categories", "tags"}

DatasetCandidates ==
  NonObjects \cup
  {MkObject(DatasetFieldNames, r) :
     r \in [type : {Absent, JsString(<<>>), JsString(<<"a">>), JsNumber(3)},
            items : {Absent, JsString(<<"a">>)} \cup
                    {JsArray(e) : e \in SeqsUpTo(FixtureItems, MaxItems)},
            categories : {Absent, JsString(<<"a">>), JsArray(<<>>),
                          JsArray(<<JsString(<<"a">>)>>)},
            tags : {Absent, JsObject(<<>>), JsArray(<<JsString(<<"a">>)>>)}]}

(* the validator as a state machine: the candidate is drawn in Init *)
InitValidator == candidate \in ItemCandidates \cup DatasetCandidates /\ verdict = FALSE

IsValidItem ==
  /\ op = "none"
  /\ op' = "isValidItem"
  /\ verdict' = isValidItem(candidate)
  /\ UNCHANGED <<candidate, items, arg, result, loaderVars, routingVars, darkVars, searchVars>>

IsValidDataset ==
  /\ op = "none"
  /\ op' = "isValidDataset"
  /\ verdict' = isValidDataset(candidate)
  /\ UNCHANGED <<candidate, items, arg, result, loaderVars, routingVars, darkVars, searchVars>>

----------------------------------------------------------------------------
(* lib/dataset: loadDataset, getDataset and the module-level cache.        *)
(* datasetJson is what the import of data/dataset.json yields; a call      *)
(* either returns a value or throws an Error with a message.               *)

Returned(value) == [threw |-> FALSE, message |-> <<>>, value |-> value]
Thrown(message) == [threw |-> TRUE, message |-> message, value |-> JsUndefined]

(* the body of the try block: what it returns or the message it throws *)
loadDatasetTry(json) ==
  IF ~truthy(json)
  THEN Thrown(<<"Dataset file is missing or empty. Please ensure data/dataset.json exists and contains valid data.">>)
  ELSE IF typeof(json) # "object"
  THEN Thrown(<<"Dataset must be a valid JSON object">>)
  ELSE LET dataset == json
       IN  IF ~truthy(getProperty(dataset, "type"))
           THEN Thrown(<<"Dataset must have a \"type\" field">>)
           ELSE IF ~isArray(getProperty(dataset, "items"))
           THEN Thrown(<<"Dataset must have an \"items\" array">>)
           ELSE IF ~isArray(getProperty(dataset, "categories"))
           THEN Thrown(<<"Dataset must have a \"categories\" array">>)
           ELSE IF ~isArray(getProperty(dataset, "tags"))
           THEN Thrown(<<"Dataset must have a \"tags\" array">>)
           ELSE Returned(dataset)

(* the catch block rethrows with a prefix *)
loadDataset(json) ==
  LET r == loadDatasetTry(json)
  IN  IF r.threw THEN Thrown(<<"Dataset loading failed: ">> \o r.message) ELSE r

(* getDataset: the call's outcome, the cache after it, and the number of   *)
(* loadDataset invocations it made                                         *)
GetResult(r, cache, loaded) == [outcome |-> r, cache |-> cache, loaded |-> loaded]

(* getDataset storing the fixture in the cache before loadDataset has      *)
(* checked it                                                              *)
getDataset_CachesUnchecked(cache, json) ==
  IF ~truthy(cache)
  THEN LET r == loadDataset(json)
       IN  IF r.threw THEN GetResult(r, json, 1)
           ELSE GetResult(Returned(r.value), r.value, 1)
  ELSE GetResult(Returned(cache), cache, 0)

(* getDataset without the test of the cache *)
getDataset_AlwaysLoads(cache, json) ==
  LET r == loadDataset(json)
  IN  IF r.threw THEN GetResult(r, cache, 1) ELSE GetResult(Returned(r.value), r.value, 1)

getDataset(cache, json) ==
  IF ~truthy(cache)
  THEN LET r == loadDataset(json)
       IN  IF r.threw THEN GetResult(r, cache, 1)
           ELSE GetResult(Returned(r.value), r.value, 1)
  ELSE GetResult(Returned(cache), cache, 0)

NoOutcome == [threw |-> FALSE, message |-> <<>>, value |-> JsUndefined]

InitLoader ==
  /\ datasetJson \in DatasetCandidates
  /\ cachedDataset = JsNull
  /\ outcome = NoOutcome
  /\ loads = 0
  /\ calls = 0
  /\ firstReturn = JsNull

LoadDataset ==
  /\ calls < MaxCalls
  /\ op' = "loadDataset"
  /\ outcome' = loadDataset(datasetJson)
  /\ loads' = loads + 1
  /\ calls' = calls + 1
  /\ UNCHANGED <<datasetJson, cachedDataset, firstReturn>>
  /\ UNCHANGED <<items, arg, result, validatorVars, routingVars, darkVars, searchVars>>

GetDataset ==
  /\ calls < MaxCalls
  /\ LET g == getDataset(cachedDataset, datasetJson)
     IN  /\ op' = "getDataset"
         /\ outcome' = g.outcome
         /\ cachedDataset' = g.cache
         /\ loads' = loads + g.loaded
         /\ firstReturn' = IF firstReturn = JsNull /\ ~g.outcome.threw
                           THEN g.outcome.value ELSE firstReturn
  /\ calls' = calls + 1
  /\ UNCHANGED <<datasetJson, items, arg, result, validatorVars, routingVars, darkVars, searchVars>>

----------------------------------------------------------------------------
(* The pipeline as a state machine: the input collection is drawn in Init, *)
(* each action is one call.                                                *)

InitPipeline ==
  /\ items \in ItemLists
  /\ op = "none"
  /\ arg = <<>>
  /\ result = Ret(<<>>, FALSE, <<>>)

(* one call per drawn input: the functions keep no state between calls *)
Call(name, a, r) ==
  /\ op' = name
  /\ arg' = a
  /\ result' = r
  /\ items' = r.input
  /\ UNCHANGED <<validatorVars, loaderVars, routingVars, darkVars, searchVars>>

SearchItems == op = "none" /\ \E q \in Strings : Call("searchItems", q, searchItems(items, q))

(* the category argument: typed text, or the category of one of the items *)
(* (the category page passes the dataset's own category names)            *)
FilterByCategory ==
  /\ op = "none"
  /\ \E c \in Strings \cup {items[i].category : i \in 1..Len(items)} :
        Call("filterByCategory", c, filterByCategory(items, c))

FilterByTags == op = "none" /\ \E ts \in TagArgs : Call("filterByTags", ts, filterByTags(items, ts))

FilterByMinRating ==
  op = "none" /\ \E m \in MinRatings : Call("filterByMinRating", m, filterByMinRating(items, m))

SortItems == op = "none" /\ \E s \in SortModes : Call("sortItems", s, sortItems(items, s))

CalculateHomepageStatistics ==
  op = "none" /\ \E cs \in DatasetCategoryLists, ts \in DatasetTagLists :
     LET dataset == [type |-> "startups", items |-> items,
                     categories |-> cs, tags |-> ts]
     IN  /\ op' = "calculateHomepageStatistics"
         /\ arg' = dataset
         /\ result' = calculateHomepageStatistics(dataset)
         /\ items' = items
         /\ UNCHANGED <<validatorVars, loaderVars, routingVars, darkVars, searchVars>>

InitIdleValidator == candidate = JsUndefined /\ verdict = FALSE
InitIdleLoader ==
  /\ datasetJson = JsNull
  /\ cachedDataset = JsNull
  /\ outcome = NoOutcome
  /\ loads = 0
  /\ calls = 0
  /\ firstReturn = JsNull

(* what a debounce timer's callback closes over *)
Closure(l, v) == [localValue |-> l, value |-> v]

NoCall == [by |-> "none", text |-> <<>>, burst |-> <<>>]

InitIdleSearch ==
  /\ valueProp = <<>>
  /\ searchQuery = <<>>
  /\ localValue = <<>>
  /\ timers = {}
  /\ lastTimer = Closure(<<>>, <<>>)
  /\ typed = <<>>
  /\ searchEvent = "none"
  /\ lastCall = NoCall

InitIdleRouting == categories = <<>>

(* localStorage.getItem('darkMode'): null, or the stored string *)
NoFlag == [present |-> FALSE, value |-> ""]
Flag(v) == [present |-> TRUE, value |-> v]

InitIdleDark ==
  /\ isDarkMode = FALSE
  /\ mounted = FALSE
  /\ darkClass = FALSE
  /\ stored = NoFlag
  /\ history = <<>>

PipelineNext ==
  \/ SearchItems
  \/ FilterByCategory
  \/ FilterByTags
  \/ FilterByMinRating
  \/ SortItems
  \/ CalculateHomepageStatistics

PipelineInit == InitPipeline /\ InitIdleValidator /\ InitIdleLoader /\ InitIdleRouting /\ InitIdleDark /\ InitIdleSearch

PipelineSpec == PipelineInit /\ [][PipelineNext]_vars

InitIdlePipeline ==
  /\ items = <<>>
  /\ op = "none"
  /\ arg = <<>>
  /\ result = Ret(<<>>, FALSE, <<>>)

ValidatorNext ==
  \/ IsValidItem
  \/ IsValidDataset

ValidatorInit == InitIdlePipeline /\ InitValidator /\ InitIdleLoader /\ InitIdleRouting /\ InitIdleDark /\ InitIdleSearch

ValidatorSpec == ValidatorInit /\ [][ValidatorNext]_vars

LoaderNext ==
  \/ LoadDataset
  \/ GetDataset

LoaderInit == InitIdlePipeline /\ InitIdleValidator /\ InitLoader /\ InitIdleRouting /\ InitIdleDark /\ InitIdleSearch

LoaderSpec == LoaderInit /\ [][LoaderNext]_vars

----------------------------------------------------------------------------
(* lib/dataset: category names and their URL segments *)

MaxCategories == 3

(* category names a fixture may list; "Ab" and "AA" are also the names the *)
(* navigation bar hard-codes                                               *)
CategoryPool == {<<>>, <<"A", "b">>, <<"a", "b", " ">>, <<"b">>, <<"A", " ", "b">>,
                 <<"A", "A">>}

NoDuplicates(s) == \A i, j \in 1..Len(s) : s[i] = s[j] => i = j

CategoryLists == {cs \in SeqsUpTo(CategoryPool, MaxCategories) : NoDuplicates(cs)}

(* encodeURIComponent, one character: letters stay, the rest is escaped *)
EncodeChar(c) ==
  CASE c = " " -> <<"%", "2", "0">>
    [] c = "%" -> <<"%", "2", "5">>
    [] OTHER -> <<c>>

RECURSIVE encodeURIComponent(_)
encodeURIComponent(s) ==
  IF s = <<>> THEN <<>> ELSE EncodeChar(Head(s)) \o encodeURIComponent(Tail(s))

(* normalizeCategoryForUrl that also escapes the segment *)
normalizeCategoryForUrl_Escaped(category) ==
  encodeURIComponent(trim(toLowerCase(category)))

normalizeCategoryForUrl(category) == trim(toLowerCase(category))

(* Array.prototype.find: the first element the callback accepts, else      *)
(* undefined (accept[i] is the callback's verdict on element i)            *)
RECURSIVE find(_, _, _)
find(a, accept, i) ==
  IF i > Len(a) THEN JsUndefined
  ELSE IF accept[i] THEN JsString(a[i])
  ELSE find(a, accept, i + 1)

(* returns found || null *)
findOriginalCategory(normalizedCategory, cats) ==
  LET normalized == trim(toLowerCase(normalizedCategory))
      found == find(cats, [i \in 1..Len(cats) |->
                             trim(toLowerCase(cats[i])) = normalized], 1)
  IN  IF truthy(found) THEN found ELSE JsNull

(* app/category/[category]/page generateStaticParams *)
generateStaticParams(cats) ==
  [i \in 1..Len(cats) |-> [category |-> normalizeCategoryForUrl(cats[i])]]

(* a rendered <Link href={`/category/${segment}`}> to a category's page *)
CategoryLink(category, segment) == [category |-> category, segment |-> segment]

(* app/page Home: the category grid *)
HomeCategoryLinks(cats) ==
  [i \in 1..Len(cats) |-> CategoryLink(cats[i], normalizeCategoryForUrl(cats[i]))]

(* components/Navigation: the category names are written into the component *)
NavigationCategories == <<<<"A", "b">>, <<"A", "A">>>>

(* the desktop dropdown followed by the mobile menu *)
NavigationCategoryLinks ==
  LET menu == [i \in 1..Len(NavigationCategories) |->
                 CategoryLink(NavigationCategories[i],
                              encodeURIComponent(NavigationCategories[i]))]
  IN  menu \o menu

InitRouting == categories \in CategoryLists

RoutingCall(name, a, r) ==
  /\ op' = name
  /\ arg' = a
  /\ result' = r
  /\ UNCHANGED <<items, validatorVars, loaderVars, routingVars, darkVars, searchVars>>

(* the strings a caller passes: typed text and the fixture's names *)
CategoryArgs == Strings \cup CategoryPool

NormalizeCategoryForUrl ==
  /\ op = "none"
  /\ \E c \in CategoryArgs :
        RoutingCall("normalizeCategoryForUrl", c, normalizeCategoryForUrl(c))

(* CategoryPageClient resolves the route's segment *)
FindOriginalCategory ==
  /\ op = "none"
  /\ \E n \in Strings \cup {normalizeCategoryForUrl(c) : c \in CategoryPool} :
        RoutingCall("findOriginalCategory", n, findOriginalCategory(n, categories))

GenerateStaticParams ==
  /\ op = "none"
  /\ RoutingCall("generateStaticParams", categories, generateStaticParams(categories))

RenderHome ==
  /\ op = "none"
  /\ RoutingCall("Home", categories, HomeCategoryLinks(categories))

RenderNavigation ==
  /\ op = "none"
  /\ RoutingCall("Navigation", <<>>, NavigationCategoryLinks)

RoutingNext ==
  \/ NormalizeCategoryForUrl
  \/ FindOriginalCategory
  \/ GenerateStaticParams
  \/ RenderHome
  \/ RenderNavigation

RoutingInit ==
  InitIdlePipeline /\ InitIdleValidator /\ InitIdleLoader /\ InitRouting /\ InitIdleDark /\ InitIdleSearch

RoutingSpec == RoutingInit /\ [][RoutingNext]_vars

----------------------------------------------------------------------------
(* What the pages compute from the dataset: app/page (Home), app/browse    *)
(* (BrowsePage) and app/category/[category] (CategoryPageClient).          *)

(* Home: the average before .toFixed(1) *)
homeAverageRating(dataset) ==
  LET totalItems == Len(dataset.items)
  IN  Divide(reduceRatings(dataset.items, 1, 0), totalItems)

(* Home: the number shown on a category's tile *)
homeCategoryCount(its, category) ==
  Len(filter(its, [i \in 1..Len(its) |-> its[i].category = category]))

(* BrowsePage.filteredItems *)
browseFilteredItems(its, query, selectedCategories, selectedTags, sortBy) ==
  LET searched == IF query # <<>> THEN searchItems(its, query).out ELSE its
      inCategories ==
        IF Len(selectedCategories) > 0
        THEN filter(searched, [i \in 1..Len(searched) |->
                                 arrayIncludes(selectedCategories, searched[i].category)])
        ELSE searched
      tagged == IF Len(selectedTags) > 0
                THEN filterByTags(inCategories, selectedTags).out
                ELSE inCategories
  IN  sortItems(tagged, sortBy).out

NotFound == [found |-> FALSE, items |-> <<>>]
Found(its) == [found |-> TRUE, items |-> its]

(* CategoryPageClient.filteredItems for the route segment, or the          *)
(* not-found page                                                          *)
categoryPageItems(its, cats, segment, query, sortBy) ==
  LET originalCategory == findOriginalCategory(segment, cats)
  IN  IF ~truthy(originalCategory) THEN NotFound
      ELSE LET inCategory == filterByCategory(its, originalCategory.str).out
               searched == IF query # <<>> THEN searchItems(inCategory, query).out
                           ELSE inCategory
           IN  Found(sortItems(searched, sortBy).out)

(* a fixture: its category list names every category its items use *)
InitPages ==
  /\ items \in ItemLists
  /\ categories \in DatasetCategoryLists
  /\ \A i \in 1..Len(items) : arrayIncludes(categories, items[i].category)
  /\ op = "none"
  /\ arg = <<>>
  /\ result = Ret(<<>>, FALSE, <<>>)

RenderHomeStatistics ==
  /\ op = "none"
  /\ LET dataset == [type |-> "startups", items |-> items,
                     categories |-> categories, tags |-> AllTags]
     IN  /\ op' = "homeStatistics"
         /\ arg' = dataset
         /\ result' = [totalItems |-> Len(dataset.items),
                       totalCategories |-> Len(dataset.categories),
                       totalTags |-> Len(dataset.tags),
                       averageRating |-> homeAverageRating(dataset)]
  /\ UNCHANGED <<items, validatorVars, loaderVars, routingVars, darkVars, searchVars>>

(* one category as the three pages present it: the homepage tile, the      *)
(* browse page with only this category ticked, and the category's own page *)
(* reached through its generated route; no search text, default sort       *)
RenderCategoryViews ==
  /\ op = "none"
  /\ \E k \in 1..Len(categories) :
        LET c == categories[k]
        IN  /\ op' = "categoryViews"
            /\ arg' = c
            /\ result' =
                 [home |-> homeCategoryCount(items, c),
                  browse |-> browseFilteredItems(items, <<>>, <<c>>, <<>>, "name-asc"),
                  page |-> categoryPageItems(items, categories,
                                             generateStaticParams(categories)[k].category,
                                             <<>>, "name-asc")]
  /\ UNCHANGED <<items, validatorVars, loaderVars, routingVars, darkVars, searchVars>>

PagesNext ==
  \/ RenderHomeStatistics
  \/ RenderCategoryViews

PagesInit ==
  /\ InitPages /\ InitIdleValidator /\ InitIdleLoader
  /\ InitIdleDark /\ InitIdleSearch

PagesSpec == PagesInit /\ [][PagesNext]_vars

----------------------------------------------------------------------------
(* Two pipeline stages applied one after the other, in both orders, as the *)
(* pages compose them.                                                     *)

Stage(fn, a) == [fn |-> fn, arg |-> a]

(* the stage calls that are composed *)
StageCalls ==
  << Stage("searchItems", <<"a">>),
     Stage("searchItems", <<"B">>),
     Stage("searchItems", <<" ">>),
     Stage("filterByCategory", <<"a", "B">>),
     Stage("filterByCategory", <<"b">>),
     Stage("filterByTags", <<<<"a">>>>),
     Stage("filterByTags", <<<<"A">>, <<"A", "A">>>>),
     Stage("filterByMinRating", 0),
     Stage("filterByMinRating", 3),
     Stage("filterByMinRating", 5),
     Stage("sortItems", "name-asc"),
     Stage("sortItems", "name-desc"),
     Stage("sortItems", "rating-asc"),
     Stage("sortItems", "rating-desc"),
     Stage("sortItems", "other") >>

(* the array a stage returns for the array it is given *)
Apply(stage, its) ==
  CASE stage.fn = "searchItems" -> searchItems(its, stage.arg).out
    [] stage.fn = "filterByCategory" -> filterByCategory(its, stage.arg).out
    [] stage.fn = "filterByTags" -> filterByTags(its, stage.arg).out
    [] stage.fn = "filterByMinRating" -> filterByMinRating(its, stage.arg).out
    [] stage.fn = "sortItems" -> sortItems(its, stage.arg).out

Filters == {"searchItems", "filterByCategory", "filterByTags", "filterByMinRating"}

(* stage f then stage g, and stage g then stage f, on the same input; two  *)
(* sorts are never composed                                                *)
Compose ==
  /\ op = "none"
  /\ \E f, g \in 1..Len(StageCalls) :
        /\ f # g
        /\ StageCalls[f].fn \in Filters \/ StageCalls[g].fn \in Filters
        /\ op' = "compose"
        /\ arg' = <<f, g>>
        /\ result' = [fg |-> Apply(StageCalls[g], Apply(StageCalls[f], items)),
                      gf |-> Apply(StageCalls[f], Apply(StageCalls[g], items))]
  /\ UNCHANGED <<items, validatorVars, loaderVars, routingVars, darkVars, searchVars>>

CompositionNext == Compose

CompositionSpec == PipelineInit /\ [][CompositionNext]_vars

----------------------------------------------------------------------------
(* components/DarkModeProvider.  isDarkMode and mounted are the provider's *)
(* React state, darkClass is whether document.documentElement carries the  *)
(* class 'dark', stored is the localStorage entry 'darkMode'.  history     *)
(* records each step taken with the state it started from.                 *)

MaxEvents == 5

(* what localStorage may hold when the site is opened *)
StoredFlags == {NoFlag, Flag("true"), Flag("false"), Flag("1")}

(* String(b) *)
StringOf(b) == IF b THEN "true" ELSE "false"

(* a mount effect that takes any stored flag to mean dark *)
mountEffect_AnyFlagDark(prev, cls, flag) ==
  IF flag.present
  THEN [isDarkMode |-> TRUE, darkClass |-> TRUE]
  ELSE [isDarkMode |-> prev, darkClass |-> cls]

(* a mount effect that reads the flag "1" as dark, too *)
mountEffect_TruthyFlag(prev, cls, flag) ==
  IF flag.present
  THEN LET isDark == flag.value \in {"true", "1"}
       IN  [isDarkMode |-> isDark, darkClass |-> IF isDark THEN TRUE ELSE cls]
  ELSE [isDarkMode |-> prev, darkClass |-> cls]

(* the mount effect: the stored flag, if any, decides the mode; the class  *)
(* is added for dark and otherwise left as it is                           *)
mountEffect(prev, cls, flag) ==
  IF flag.present
  THEN LET isDark == flag.value = "true"
       IN  [isDarkMode |-> isDark, darkClass |-> IF isDark THEN TRUE ELSE cls]
  ELSE [isDarkMode |-> prev, darkClass |-> cls]

(* toggleDarkMode that adds the class for dark but never removes it *)
toggleDarkMode_NeverRemoves(prev, cls) ==
  LET newValue == ~prev
  IN  [isDarkMode |-> newValue,
       stored |-> Flag(StringOf(newValue)),
       darkClass |-> cls \/ newValue]

(* toggleDarkMode: the updater passed to setIsDarkMode *)
toggleDarkMode(prev, cls) ==
  LET newValue == ~prev
  IN  [isDarkMode |-> newValue,
       stored |-> Flag(StringOf(newValue)),
       darkClass |-> IF newValue THEN TRUE ELSE FALSE]

Snapshot(event) ==
  [event |-> event, isDarkMode |-> isDarkMode, darkClass |-> darkClass,
   stored |-> stored]

InitDark ==
  /\ isDarkMode = FALSE
  /\ mounted = FALSE
  /\ darkClass = FALSE
  /\ stored \in StoredFlags
  /\ history = <<>>

(* useEffect(..., []) after the provider's first render *)
Mount ==
  /\ ~mounted
  /\ Len(history) < MaxEvents
  /\ LET r == mountEffect(isDarkMode, darkClass, stored)
     IN  /\ mounted' = TRUE
         /\ isDarkMode' = r.isDarkMode
         /\ darkClass' = r.darkClass
  /\ history' = Append(history, Snapshot("mount"))
  /\ UNCHANGED <<stored, items, op, arg, result, validatorVars, loaderVars, routingVars, searchVars>>

(* a click on the toggle; React runs the mount effect before it delivers   *)
(* the first click                                                         *)
ToggleDarkMode ==
  /\ mounted
  /\ Len(history) < MaxEvents
  /\ LET r == toggleDarkMode(isDarkMode, darkClass)
     IN  /\ isDarkMode' = r.isDarkMode
         /\ stored' = r.stored
         /\ darkClass' = r.darkClass
  /\ history' = Append(history, Snapshot("toggleDarkMode"))
  /\ UNCHANGED <<mounted, items, op, arg, result, validatorVars, loaderVars, routingVars, searchVars>>

(* a page load: a new document and a new provider, localStorage kept *)
Reload ==
  /\ Len(history) < MaxEvents
  /\ isDarkMode' = FALSE
  /\ mounted' = FALSE
  /\ darkClass' = FALSE
  /\ history' = Append(history, Snapshot("reload"))
  /\ UNCHANGED <<stored, items, op, arg, result, validatorVars, loaderVars, routingVars, searchVars>>

DarkModeNext ==
  \/ Mount
  \/ ToggleDarkMode
  \/ Reload

DarkModeInit ==
  InitIdlePipeline /\ InitIdleValidator /\ InitIdleLoader /\ InitIdleRouting /\ InitDark /\ InitIdleSearch

DarkModeSpec == DarkModeInit /\ [][DarkModeNext]_vars

----------------------------------------------------------------------------
(* components/SearchBar under a parent that passes value={searchQuery} and *)
(* onChange={setSearchQuery} (app/browse/page, CategoryPageClient).        *)
(*   searchQuery - the parent's state                                      *)
(*   valueProp   - the value prop of SearchBar's latest render             *)
(*   localValue  - the text shown in the input                             *)
(*   timers      - the setTimeout callbacks still pending                  *)
(*   lastTimer   - the timer the debounce effect's cleanup will clear      *)
(*   typed       - the texts typed since onChange was last called          *)
(*   lastCall    - the latest call of onChange                             *)

MaxBurst == 2

SearchTexts == {<<>>, <<"a">>, <<"a", "b">>}

(* the debounce effect re-running without clearing the previous timer *)
debounceEffect_NoCleanup(pending, previous, l, v) == pending \cup {Closure(l, v)}

(* the debounce effect re-running: the cleanup clears the previous timer,  *)
(* then a new one is set                                                   *)
debounceEffect(pending, previous, l, v) ==
  (pending \ {previous}) \cup {Closure(l, v)}

InitSearch ==
  /\ valueProp = <<>>
  /\ searchQuery = <<>>
  /\ localValue = <<>>
  /\ timers = {Closure(<<>>, <<>>)}
  /\ lastTimer = Closure(<<>>, <<>>)
  /\ typed = <<>>
  /\ searchEvent = "none"
  /\ lastCall = NoCall

(* a keystroke: the input's onChange sets localValue, the render that      *)
(* follows re-runs the debounce effect with the value prop it has          *)
HandleInput ==
  /\ Len(typed) < MaxBurst
  /\ \E text \in SearchTexts \ {localValue} :
        /\ localValue' = text
        /\ timers' = debounceEffect(timers, lastTimer, text, valueProp)
        /\ lastTimer' = Closure(text, valueProp)
        /\ typed' = Append(typed, text)
  /\ searchEvent' = "input"
  /\ UNCHANGED <<valueProp, searchQuery, lastCall>>
  /\ UNCHANGED <<items, op, arg, result, validatorVars, loaderVars, routingVars, darkVars>>

(* a pending timer fires.  The render a call of onChange schedules takes   *)
(* place long before a timer set after that call can fire, so no timer     *)
(* fires while that render is outstanding.                                 *)
TimerFires ==
  /\ searchQuery = valueProp
  /\ \E t \in timers :
        /\ timers' = timers \ {t}
        /\ IF t.localValue # t.value
           THEN /\ searchQuery' = t.localValue
                /\ lastCall' = [by |-> "timer", text |-> t.localValue, burst |-> typed]
                /\ typed' = <<>>
                /\ searchEvent' = "onChange"
           ELSE /\ UNCHANGED <<searchQuery, lastCall, typed>>
                /\ searchEvent' = "idle"
  /\ UNCHANGED <<valueProp, localValue, lastTimer>>
  /\ UNCHANGED <<items, op, arg, result, validatorVars, loaderVars, routingVars, darkVars>>

(* the parent renders with its new searchQuery: the prop-sync effect sets  *)
(* localValue to the new prop, and the debounce effect runs for this       *)
(* render and again for the render setLocalValue causes                    *)
ParentRender ==
  /\ searchQuery # valueProp
  /\ valueProp' = searchQuery
  /\ localValue' = searchQuery
  /\ LET first == debounceEffect(timers, lastTimer, localValue, searchQuery)
     IN  timers' = debounceEffect(first, Closure(localValue, searchQuery),
                                  searchQuery, searchQuery)
  /\ lastTimer' = Closure(searchQuery, searchQuery)
  /\ searchEvent' = "render"
  /\ UNCHANGED <<searchQuery, typed, lastCall>>
  /\ UNCHANGED <<items, op, arg, result, validatorVars, loaderVars, routingVars, darkVars>>

(* the clear button, shown while localValue is not empty: setLocalValue('') *)
(* and onChange('') in one event, rendered together                        *)
HandleClear ==
  /\ localValue # <<>>
  /\ localValue' = <<>>
  /\ searchQuery' = <<>>
  /\ valueProp' = <<>>
  /\ timers' = debounceEffect(timers, lastTimer, <<>>, <<>>)
  /\ lastTimer' = Closure(<<>>, <<>>)
  /\ lastCall' = [by |-> "clear", text |-> <<>>, burst |-> typed]
  /\ typed' = <<>>
  /\ searchEvent' = "clear"
  /\ UNCHANGED <<items, op, arg, result, validatorVars, loaderVars, routingVars, darkVars>>

SearchBarNext ==
  \/ HandleInput
  \/ TimerFires
  \/ ParentRender
  \/ HandleClear

SearchBarInit ==
  /\ InitIdlePipeline /\ InitIdleValidator /\ InitIdleLoader
  /\ InitIdleRouting /\ InitIdleDark /\ InitSearch

SearchBarSpec == SearchBarInit /\ [][SearchBarNext]_vars

----------------------------------------------------------------------------
(* Claims about the query pipeline (PipelineSpec) *)

Blank(s) == s = <<>> \/ \A i \in 1..Len(s) : s[i] = " "

(* x occurs in s: s = pre \o x \o post for some pre, post *)
Occurs(x, s) ==
  \E from \in 1..(Len(s) + 1) : \E to \in (from - 1)..Len(s) :
     /\ to - from + 1 = Len(x)
     /\ \A k \in 1..Len(x) : s[from + k - 1] = x[k]

(* the elements of s at the positions in P, in the order of s *)
RECURSIVE Pick(_, _, _)
Pick(s, P, i) ==
  IF i > Len(s) THEN <<>>
  ELSE (IF i \in P THEN <<s[i]>> ELSE <<>>) \o Pick(s, P, i + 1)

Ids(s) == {s[i].id : i \in 1..Len(s)}

SearchMatches(item, q) ==
  LET n == trim(toLowerCase(q))
  IN  \/ Occurs(n, toLowerCase(item.name))
      \/ Occurs(n, toLowerCase(item.description))
      \/ \E t \in 1..Len(item.tags) : Occurs(n, toLowerCase(item.tags[t]))

(* C1: searchItems returns its input array for an empty or white-space    *)
(* query, and otherwise exactly the items, in input order, whose          *)
(* lower-cased name, description or some tag contains the lower-cased,     *)
(* trimmed query.                                                          *)
C1_SearchExact ==
  op = "searchItems" =>
    IF Blank(arg) THEN result.alias /\ result.out = items
    ELSE result.out =
           Pick(items, {i \in 1..Len(items) : SearchMatches(items[i], arg)}, 1)

(* C1 witness: the upper-case query "AA" keeps an item that matches only   *)
(* through its tag "AA" and drops the untagged item before it.             *)
C1_Witness ==
  /\ op = "searchItems"
  /\ arg = <<"A", "A">>
  /\ Len(items) = 2
  /\ items[1].tags = <<>>
  /\ Len(result.out) = 1
  /\ result.out[1] = items[2]
  /\ ~Occurs(<<"a", "a">>, toLowerCase(result.out[1].name))
  /\ ~Occurs(<<"a", "a">>, toLowerCase(result.out[1].description))

SameUpToCase(x, y) ==
  Len(x) = Len(y) /\ \A i \in 1..Len(x) : LowerChar(x[i]) = LowerChar(y[i])

(* C2: filterByCategory returns its input for an empty or white-space      *)
(* category, otherwise exactly the items, in input order, whose category   *)
(* equals it after both are lower-cased and trimmed; arguments differing   *)
(* only in letter case select the same ids.                                *)
C2_CategoryExact ==
  op = "filterByCategory" =>
    /\ IF Blank(arg) THEN result.alias /\ result.out = items
       ELSE result.out =
              Pick(items, {i \in 1..Len(items) :
                             trim(toLowerCase(items[i].category)) = trim(toLowerCase(arg))}, 1)
    /\ \A c \in Strings :
         SameUpToCase(c, arg) => Ids(filterByCategory(items, c).out) = Ids(result.out)

(* C2 witness: "AB" keeps the item filed under "ab " and drops the one     *)
(* filed under "b".                                                        *)
C2_Witness ==
  /\ op = "filterByCategory"
  /\ arg = <<"A", "A">> \/ arg = <<"A", "b">> \/ arg = <<"a", "b">>
  /\ Len(items) = 2
  /\ items[1].category = <<"b">>
  /\ items[2].category = <<"a", "b", " ">>
  /\ Ids(result.out) = {2}

InOrder(sortBy, a, b) ==
  CASE sortBy = "name-asc" -> localeCompare(a.name, b.name) <= 0
    [] sortBy = "name-desc" -> localeCompare(a.name, b.name) >= 0
    [] sortBy = "rating-asc" -> a.rating <= b.rating
    [] sortBy = "rating-desc" -> a.rating >= b.rating
    [] OTHER -> TRUE

(* C3: in each of the four sort modes every adjacent pair of the result of *)
(* sortItems is in order.                                                  *)
C3_SortedAdjacent ==
  op = "sortItems" =>
    \A i \in 1..(Len(result.out) - 1) :
       InOrder(arg, result.out[i], result.out[i + 1])

(* C3 witness: a rating-desc sort that had to exchange two items *)
C3_Witness ==
  /\ op = "sortItems"
  /\ arg = "rating-desc"
  /\ Len(items) = 2
  /\ items[1].rating < items[2].rating
  /\ result.out = <<items[2], items[1]>>

(* C4: filterByTags returns its input for an empty tag list, otherwise     *)
(* exactly the items, in input order, one of whose tags equals a requested *)
(* tag character for character.                                            *)
C4_TagsExact ==
  op = "filterByTags" =>
    IF arg = <<>> THEN result.alias /\ result.out = items
    ELSE result.out =
           Pick(items, {i \in 1..Len(items) :
                          \E t \in 1..Len(arg) : \E u \in 1..Len(items[i].tags) :
                             items[i].tags[u] = arg[t]}, 1)

(* C4 witness: the requested tag "A" is a case variant of one tag and a    *)
(* substring of the other tag of the only item, which is dropped.          *)
C4_Witness ==
  /\ op = "filterByTags"
  /\ arg = <<<<"A">>>>
  /\ Len(items) = 1
  /\ items[1].tags = <<<<"a">>, <<"A", "A">>>>
  /\ result.out = <<>>

(* the sum of the ratings of the items at the positions in P *)
RECURSIVE TotalRating(_, _)
TotalRating(its, P) ==
  IF P = {} THEN 0
  ELSE LET i == CHOOSE j \in P : TRUE
       IN  its[i].rating + TotalRating(its, P \ {i})

(* C5: the three totals are the lengths of items, categories and tags, and *)
(* averageRating is the mean of the ratings, exactly 0 for no items.       *)
C5_StatsMatchDataset ==
  op = "calculateHomepageStatistics" =>
    /\ result.totalItems = Len(arg.items)
    /\ result.totalCategories = Len(arg.categories)
    /\ result.totalTags = Len(arg.tags)
    /\ result.averageRating.kind = "finite"
    /\ result.averageRating.den > 0
    /\ IF Len(arg.items) = 0
       THEN result.averageRating.num = 0
       ELSE result.averageRating.num * Len(arg.items) =
              result.averageRating.den * TotalRating(arg.items, DOMAIN arg.items)

(* C5 witness: ratings 2 and 5 average to 7/2, with different numbers of   *)
(* items, categories and tags.                                             *)
C5_Witness ==
  /\ op = "calculateHomepageStatistics"
  /\ Len(arg.items) = 2
  /\ Len(arg.categories) = 3
  /\ Len(arg.tags) = 1
  /\ arg.items[1].rating = 2
  /\ arg.items[2].rating = 5
  /\ result.averageRating = Finite(7, 2)

----------------------------------------------------------------------------
(* Claims about the validator (ValidatorSpec) *)

IsObject(v) == v.kind = "object"
HasString(v, f) == IsObject(v) /\ f \in DOMAIN v.props /\ v.props[f].kind = "string"
HasArray(v, f) == IsObject(v) /\ f \in DOMAIN v.props /\ v.props[f].kind = "array"

(* what C6 says a valid item is *)
ValidItemShape(x) ==
  /\ IsObject(x)
  /\ HasString(x, "name") /\ HasString(x, "category") /\ HasString(x, "description")
  /\ HasArray(x, "tags")
  /\ \A t \in 1..Len(x.props["tags"].elems) : x.props["tags"].elems[t].kind = "string"
  /\ "rating" \in DOMAIN x.props
  /\ x.props["rating"].kind = "number"
  /\ 0 <= x.props["rating"].num /\ x.props["rating"].num <= 5

(* C6: isValidItem returns true exactly for a non-null object whose name,  *)
(* category and description are strings, whose tags is an array of strings *)
(* and whose rating is a number with 0 <= rating <= 5.                     *)
C6_ValidItemExactly ==
  op = "isValidItem" => (verdict = ValidItemShape(candidate))

(* C7: isValidDataset returns true exactly for an object with an items     *)
(* array, a type string, a categories array and a tags array, all of whose *)
(* items pass isValidItem.                                                 *)
C7_DatasetAllOrNothing ==
  op = "isValidDataset" =>
    (verdict =
       (/\ IsObject(candidate)
        /\ HasArray(candidate, "items")
        /\ HasString(candidate, "type")
        /\ HasArray(candidate, "categories")
        /\ HasArray(candidate, "tags")
        /\ \A i \in 1..Len(candidate.props["items"].elems) :
              isValidItem(candidate.props["items"].elems[i])))

(* C7 witness: a dataset of the right shape rejected for its second item   *)
(* alone.                                                                  *)
C7_Witness ==
  /\ op = "isValidDataset"
  /\ HasArray(candidate, "items")
  /\ HasString(candidate, "type")
  /\ HasArray(candidate, "categories")
  /\ HasArray(candidate, "tags")
  /\ Len(candidate.props["items"].elems) = 2
  /\ isValidItem(candidate.props["items"].elems[1])
  /\ ~isValidItem(candidate.props["items"].elems[2])
  /\ verdict = FALSE

----------------------------------------------------------------------------
(* Claims about the loader (LoaderSpec) *)

(* C8: once a getDataset call has returned, every later getDataset call    *)
(* returns the same dataset without calling loadDataset, and the cache,    *)
(* once written, never changes.                                            *)
C8_Memoized ==
  /\ [][(firstReturn # JsNull /\ op' = "getDataset" /\ calls' = calls + 1) =>
          /\ ~outcome'.threw
          /\ outcome'.value = firstReturn
          /\ loads' = loads
          /\ cachedDataset' = cachedDataset]_vars
  /\ [][cachedDataset # JsNull => cachedDataset' = cachedDataset]_vars

(* C8 witness: three getDataset calls, one load, the third returning what  *)
(* the first returned.                                                     *)
C8_Witness ==
  /\ op = "getDataset"
  /\ calls = 3
  /\ loads = 1
  /\ ~outcome.threw
  /\ outcome.value = firstReturn
  /\ cachedDataset = datasetJson

(* a fixture loadDataset has to reject according to C9 *)
Malformed(json) ==
  \/ ~truthy(json)
  \/ ~IsObject(json)
  \/ ~HasString(json, "type")
  \/ ~HasArray(json, "items")
  \/ ~HasArray(json, "categories")
  \/ ~HasArray(json, "tags")

(* C9: loadDataset throws an Error with a message, and returns nothing,    *)
(* whenever the fixture is missing or empty, is not an object, or lacks a  *)
(* string type or an array items, categories or tags.                      *)
C9_LoadRejectsMalformed ==
  (op = "loadDataset" /\ Malformed(datasetJson)) =>
    outcome.threw /\ outcome.message # <<>>

(* C10: every dataset loadDataset or getDataset returns passes             *)
(* isValidDataset.                                                         *)
C10_ReturnedIsValid ==
  (op \in {"loadDataset", "getDataset"} /\ ~outcome.threw) =>
    isValidDataset(outcome.value)

(* C28: a getDataset call that throws passes on loadDataset's error and    *)
(* leaves the cache empty; every getDataset call on an empty cache invokes *)
(* loadDataset; and the cache holds a value only if loading the fixture    *)
(* succeeds, namely the loaded dataset.                                    *)
C28_FailedLoadNotCached ==
  /\ [][(op' = "getDataset" /\ calls' = calls + 1 /\ outcome'.threw) =>
          /\ outcome' = loadDataset(datasetJson)
          /\ cachedDataset = JsNull
          /\ cachedDataset' = JsNull]_vars
  /\ [][(op' = "getDataset" /\ calls' = calls + 1 /\ cachedDataset = JsNull) =>
          loads' = loads + 1]_vars
  /\ [](cachedDataset # JsNull =>
          /\ ~loadDataset(datasetJson).threw
          /\ cachedDataset = loadDataset(datasetJson).value)

(* C28 witness: the fixture is an object that fails the checks: the second *)
(* call, a getDataset, threw after loadDataset had run twice, and nothing  *)
(* is cached.                                                              *)
C28_Witness ==
  /\ op = "getDataset"
  /\ calls = 2
  /\ loads = 2
  /\ outcome.threw
  /\ datasetJson.kind = "object"
  /\ cachedDataset = JsNull

----------------------------------------------------------------------------
(* Claims about category routing (RoutingSpec) *)

(* C11: normalizeCategoryForUrl is idempotent: normalising its result      *)
(* again changes nothing.                                                  *)
C11_NormalizeIdempotent ==
  op = "normalizeCategoryForUrl" => normalizeCategoryForUrl(result) = result

(* C11 witness: "A b" is lower-cased to "a b", its inner space kept.       *)
C11_Witness ==
  /\ op = "normalizeCategoryForUrl"
  /\ arg = <<"A", " ", "b">>
  /\ result = <<"a", " ", "b">>

(* C12: looking up the normalised form of a category of the dataset's      *)
(* duplicate-free category list returns that very category.                *)
C12_RoundTrip ==
  op = "findOriginalCategory" =>
    \A i \in 1..Len(categories) :
       arg = normalizeCategoryForUrl(categories[i]) => result = JsString(categories[i])

(* the positions of cats whose lower-cased, trimmed form equals that of n *)
MatchingPositions(n, cats) ==
  {i \in 1..Len(cats) : trim(toLowerCase(cats[i])) = trim(toLowerCase(n))}

Least(S) == CHOOSE x \in S : \A y \in S : x <= y

(* C13: findOriginalCategory returns the first category, in list order,    *)
(* whose lower-cased, trimmed form equals that of its argument, and null   *)
(* exactly when there is none.                                             *)
C13_FirstMatchOrNull ==
  op = "findOriginalCategory" =>
    LET M == MatchingPositions(arg, categories)
    IN  IF M = {} THEN result = JsNull
        ELSE result = JsString(categories[Least(M)])

(* the segments of the routes built for the dataset's categories *)
GeneratedSegments(cats) ==
  {generateStaticParams(cats)[i].category : i \in 1..Len(cats)}

(* C19: every link rendered to the page of a category of the dataset uses  *)
(* the segment generateStaticParams emits for that category, its           *)
(* normalised name, and so targets a generated route.                      *)
C19_LinksTargetRoutes ==
  op \in {"Home", "Navigation"} =>
    \A k \in 1..Len(result) :
       arrayIncludes(categories, result[k].category) =>
          /\ result[k].segment = normalizeCategoryForUrl(result[k].category)
          /\ result[k].segment \in GeneratedSegments(categories)

----------------------------------------------------------------------------
(* Further claims about the query pipeline (PipelineSpec) *)

(* C14: in a dataset whose category list is duplicate-free and covers the  *)
(* items' categories, filterByCategory called with a category some item    *)
(* uses returns as many items as have exactly that category.               *)
C14_CategoryPageCount ==
  ( /\ op = "filterByCategory"
    /\ NoDuplicates(AllCategories)
    /\ \A i \in 1..Len(items) : arrayIncludes(AllCategories, items[i].category)
    /\ \E i \in 1..Len(items) : items[i].category = arg )
  => Len(result.out) = Cardinality({i \in 1..Len(items) : items[i].category = arg})

PipelineFunctions ==
  {"searchItems", "filterByCategory", "filterByTags", "filterByMinRating", "sortItems"}

(* C15: a call of a pipeline function leaves the array it was given with   *)
(* the same elements in the same order, and the array sortItems returns is *)
(* never the array it was given.                                           *)
C15_InputUntouched ==
  [][ op' \in PipelineFunctions =>
        /\ result'.input = items
        /\ items' = items
        /\ (op' = "sortItems" => ~result'.alias) ]_vars

(* C15 witness: sorting by descending rating swapped the two items in the  *)
(* returned array while the input array kept its order.                    *)
C15_Witness ==
  /\ op = "sortItems"
  /\ arg = "rating-desc"
  /\ Len(items) = 2
  /\ result.out = <<items[2], items[1]>>
  /\ result.input = items
  /\ items[1].id = 1
  /\ ~result.alias

(* the sort key two items are compared on *)
SameKey(sortBy, a, b) ==
  IF sortBy \in {"name-asc", "name-desc"} THEN localeCompare(a.name, b.name) = 0
  ELSE a.rating = b.rating

(* the position an item of the result had in the input *)
InputPosition(item) == CHOOSE i \in 1..Len(items) : items[i] = item

(* C16: in each of the four sort modes, items with equal sort keys appear  *)
(* in the result in their input order.                                     *)
C16_SortStable ==
  (op = "sortItems" /\ arg \in {"name-asc", "name-desc", "rating-asc", "rating-desc"}) =>
    \A i, j \in 1..Len(result.out) :
       (i < j /\ SameKey(arg, result.out[i], result.out[j])) =>
          InputPosition(result.out[i]) < InputPosition(result.out[j])

(* C16 witness: two different items with the same rating, sorted by        *)
(* descending rating, come out in input order.                             *)
C16_Witness ==
  /\ op = "sortItems"
  /\ arg = "rating-desc"
  /\ Len(items) = 2
  /\ items[1].rating = items[2].rating
  /\ items[1].category # items[2].category
  /\ result.out = items

(* C17: filterByMinRating returns the items unchanged for a minimum of 0   *)
(* or less, otherwise exactly the items, in input order, rated at least    *)
(* the minimum.                                                            *)
C17_MinRatingExact ==
  op = "filterByMinRating" =>
    IF arg <= 0 THEN result.out = items
    ELSE result.out = Pick(items, {i \in 1..Len(items) : items[i].rating >= arg}, 1)

(* C17 witness: minimum 5 drops the item rated 2 and keeps the item rated  *)
(* exactly 5.                                                              *)
C17_Witness ==
  /\ op = "filterByMinRating"
  /\ arg = 5
  /\ Len(items) = 2
  /\ items[1].rating = 2
  /\ items[2].rating = 5
  /\ result.out = <<items[2]>>

(* C18: when every rating lies in [0, 5] the average rating is a number in *)
(* [0, 5], and it is 0 when there are no items.                            *)
C18_AverageInRange ==
  ( /\ op = "calculateHomepageStatistics"
    /\ \A i \in 1..Len(items) : 0 <= items[i].rating /\ items[i].rating <= 5 )
  => LET avg == result.averageRating
     IN  /\ avg.kind = "finite"
         /\ 0 <= avg.num
         /\ avg.num <= 5 * avg.den
         /\ (items = <<>> => avg = Finite(0, 1))

(* C18 witness: two items rated 5 average to the upper limit 5 although    *)
(* the dataset lists three categories.                                     *)
C18_Witness ==
  /\ op = "calculateHomepageStatistics"
  /\ Len(items) = 2
  /\ items[1].rating = 5
  /\ items[2].rating = 5
  /\ Len(arg.categories) = 3
  /\ result.averageRating = Finite(5, 1)

(* how many times x occurs in s *)
Count(s, x) == Cardinality({i \in 1..Len(s) : s[i] = x})

(* C23: in every sort mode, recognised or not, the result of sortItems has *)
(* the length of the input and holds each item as often as the input does. *)
C23_SortPermutes ==
  op = "sortItems" =>
    /\ Len(result.out) = Len(items)
    /\ \A i \in 1..Len(items) : Count(result.out, items[i]) = Count(items, items[i])
    /\ \A i \in 1..Len(result.out) :
          Count(items, result.out[i]) = Count(result.out, result.out[i])

(* C23 witness: two items with the same name, sorted by name, are both     *)
(* still there.                                                            *)
C23_Witness ==
  /\ op = "sortItems"
  /\ arg = "name-asc"
  /\ Len(items) = 2
  /\ items[1].name = items[2].name
  /\ Len(result.out) = 2
  /\ {result.out[1].id, result.out[2].id} = {1, 2}

----------------------------------------------------------------------------
(* Claims about composed stages (CompositionSpec) *)

----------------------------------------------------------------------------
(* Claims about dark mode (DarkModeSpec) *)

(* the last two steps were both toggles *)
ToggledTwice ==
  /\ Len(history) >= 2
  /\ history[Len(history)].event = "toggleDarkMode"
  /\ history[Len(history) - 1].event = "toggleDarkMode"

(* C20: after two toggles in a row isDarkMode and the document's 'dark'    *)
(* class are what they were before the first of them, and the stored flag  *)
(* is the string form of that mode.                                        *)
C20_ToggleRoundTrip ==
  ToggledTwice =>
    LET before == history[Len(history) - 1]
    IN  /\ isDarkMode = before.isDarkMode
        /\ darkClass = before.darkClass
        /\ stored = Flag(StringOf(before.isDarkMode))

(* C20 witness: two toggles from light mode, where the first one added the *)
(* class and the second has to take it away again.                         *)
C20_Witness ==
  /\ ToggledTwice
  /\ ~history[Len(history) - 1].isDarkMode
  /\ history[Len(history)].darkClass
  /\ ~darkClass
  /\ stored = Flag("false")

(* the step that led to the current state *)
LastEvent == IF history = <<>> THEN "none" ELSE history[Len(history)].event

TogglePositions == {k \in 1..Len(history) : history[k].event = "toggleDarkMode"}

(* the mode the most recent toggle set: the opposite of the one it found *)
LastToggledMode ==
  ~history[CHOOSE k \in TogglePositions : \A j \in TogglePositions : j <= k].isDarkMode

(* C21: once a toggle has happened, a later mount of the provider puts      *)
(* isDarkMode and the document's 'dark' class at the mode the last toggle   *)
(* set, and neither a mount nor a page load changes the stored flag.        *)
C21_PersistsAcrossNavigation ==
  /\ [][ (history' # history /\ history'[Len(history')].event = "mount"
            /\ TogglePositions # {})
         => (isDarkMode' = LastToggledMode /\ darkClass' = LastToggledMode) ]_vars
  /\ [][ (history' # history
            /\ history'[Len(history')].event \in {"mount", "reload"})
         => stored' = stored ]_vars

(* C21 witness: dark mode was switched on, the page was loaded again and    *)
(* the new provider's mount effect restored dark mode from the flag.        *)
C21_Witness ==
  /\ LastEvent = "mount"
  /\ Len(history) >= 3
  /\ history[Len(history) - 1].event = "reload"
  /\ history[Len(history) - 2].event = "toggleDarkMode"
  /\ ~history[Len(history) - 2].isDarkMode
  /\ ~history[Len(history)].isDarkMode
  /\ isDarkMode
  /\ darkClass
  /\ stored = Flag("true")

----------------------------------------------------------------------------
(* Claims about the search bar (SearchBarSpec) *)

(* C22: at most one debounce timer is pending and it carries the text now   *)
(* shown and the current value prop (each keystroke replaced the timer of   *)
(* the one before); when a timer calls onChange it passes the last text of  *)
(* the burst typed since the previous call, which is the text shown and     *)
(* differs from the value prop, and it leaves no timer behind to call       *)
(* again.                                                                   *)
C22_Debounced ==
  /\ Cardinality(timers) <= 1
  /\ \A t \in timers : t.localValue = localValue /\ t.value = valueProp
  /\ searchEvent = "onChange" =>
       /\ lastCall.by = "timer"
       /\ lastCall.burst # <<>>
       /\ lastCall.text = lastCall.burst[Len(lastCall.burst)]
       /\ lastCall.text = localValue
       /\ lastCall.text # valueProp
       /\ timers = {}

(* C22 witness: "a" then "ab" were typed; the one timer left passed "ab".   *)
C22_Witness ==
  /\ searchEvent = "onChange"
  /\ lastCall.burst = <<<<"a">>, <<"a", "b">>>>
  /\ lastCall.text = <<"a", "b">>
  /\ searchQuery = <<"a", "b">>
  /\ valueProp = <<>>

(* C27: the text typed last, while it has not been passed to onChange, is   *)
(* the text the input shows: no render or timer puts an older text in its   *)
(* place.                                                                   *)
C27_TypedTextKept ==
  typed # <<>> => localValue = typed[Len(typed)]

----------------------------------------------------------------------------
(* Claims about what the pages compute (PagesSpec) *)

(* C24: for a category of the dataset, the homepage's count, the browse    *)
(* page with only that category selected and the category's own page show  *)
(* the same items.                                                         *)
C24_SameMembershipEverywhere ==
  op = "categoryViews" =>
    /\ result.page.found
    /\ Ids(result.page.items) = Ids(result.browse)
    /\ result.home = Len(result.browse)
    /\ result.home = Len(result.page.items)

(* C29: the homepage's average rating, before rounding for display, is the *)
(* one calculateHomepageStatistics gives for the same dataset, and 0 when  *)
(* the dataset has no items.                                               *)
C29_HomeAverageAgrees ==
  op = "homeStatistics" =>
    /\ result.averageRating = calculateHomepageStatistics(arg).averageRating
    /\ (arg.items = <<>> => result.averageRating = Finite(0, 1))
====
